---- MODULE Spec2Model ----
(***************************************************************************)
(* Model of src/scrape_job.py: the four DOM field extractors, the JSON-LD  *)
(* extractor and the record assembler scrape_icims_job.                    *)
(*                                                                         *)
(* Text is a sequence of one-character strings, so that str.strip(),       *)
(* str.lower(), str.split() and the `in` substring test are computed the   *)
(* way Python computes them.  Python's None is the value None below, which *)
(* is no text.  A WebDriver query is modelled by its outcome: either it    *)
(* raises or it hands back the element texts in document order.            *)
(***************************************************************************)
EXTENDS Integers, Sequences, FiniteSets, TLC

VARIABLES
    pc,            \* position in the function being run
    url,           \* argument of scrape_icims_job
    view,          \* what the browser answers to each query of the page
    fault,         \* the orchestration call that raises, "none" if none does
    browser,       \* the local `driver` of scrape_icims_job
    job_data,      \* the record under construction
    dom_data,      \* job_data as it stood right before the JSON-LD merge
    json_ld_data,  \* result of extract_json_ld inside scrape_icims_job
    result         \* value returned by the function being run

vars == <<pc, url, view, fault, browser, job_data, dom_data, json_ld_data, result>>

----------------------------------------------------------------------------
(* Python values and string operations *)

None == <<"<None>">>

Whitespace == {" ", "\t", "\n"}

UpperCase == <<"A", "B", "C", "D", "E", "F", "G", "H", "I", "J", "K", "L", "M",
               "N", "O", "P", "Q", "R", "S", "T", "U", "V", "W", "X", "Y", "Z">>

LowerCase == <<"a", "b", "c", "d", "e", "f", "g", "h", "i", "j", "k", "l", "m",
               "n", "o", "p", "q", "r", "s", "t", "u", "v", "w", "x", "y", "z">>

\* s.strip(chars): drop leading and trailing characters that are in chars
RECURSIVE lstrip(_, _)
lstrip(s, chars) ==
    IF s # <<>> /\ Head(s) \in chars THEN lstrip(Tail(s), chars) ELSE s

RECURSIVE rstrip(_, _)
rstrip(s, chars) ==
    IF s # <<>> /\ s[Len(s)] \in chars
    THEN rstrip(SubSeq(s, 1, Len(s) - 1), chars)
    ELSE s

strip_chars(s, chars) == rstrip(lstrip(s, chars), chars)

\* s.strip()
strip(s) == strip_chars(s, Whitespace)

\* s.lower()
lower_char(c) ==
    IF \E i \in 1..Len(UpperCase) : UpperCase[i] = c
    THEN LowerCase[CHOOSE i \in 1..Len(UpperCase) : UpperCase[i] = c]
    ELSE c

lower(s) == [i \in 1..Len(s) |-> lower_char(s[i])]

\* needle in hay
contains(needle, hay) ==
    \E i \in 1..(Len(hay) - Len(needle) + 1) :
        SubSeq(hay, i, i + Len(needle) - 1) = needle

\* s.split(sep), for a non-empty sep: the pieces between successive
\* non-overlapping occurrences of sep, scanning from the left
RECURSIVE split_from(_, _, _)
split_from(s, sep, piece) ==
    IF Len(s) < Len(sep) THEN <<piece \o s>>
    ELSE IF SubSeq(s, 1, Len(sep)) = sep
         THEN <<piece>> \o split_from(SubSeq(s, Len(sep) + 1, Len(s)), sep, <<>>)
         ELSE split_from(Tail(s), sep, Append(piece, Head(s)))

split(s, sep) == split_from(s, sep, <<>>)

\* truth value of a str-or-None
truthy(v) == v # None /\ v # <<>>

\* sequences over S of length at most n
BSeq(S, n) == UNION {[1..k -> S] : k \in 0..n}

\* c repeated n times
Rep(c, n) == [i \in 1..n |-> c]

----------------------------------------------------------------------------
(* Outcomes of WebDriver queries *)

\* find_element: NoSuchElementException, or the text of the first match
NoSuchElement == [raises |-> TRUE, text |-> <<>>]
Element(t) == [raises |-> FALSE, text |-> t]

\* find_elements: an exception, or the texts of the matches in document order
Raises == [raises |-> TRUE, elems |-> <<>>]
Elements(ts) == [raises |-> FALSE, elems |-> ts]

\* a page on which every query finds nothing
EmptyView ==
    [title   |-> [i \in 1..5 |-> NoSuchElement],
     dd      |-> Elements(<<>>),
     dl      |-> Elements(<<>>),
     desc    |-> [i \in 1..4 |-> Elements(<<>>)],
     scripts |-> Elements(<<>>),
     body    |-> NoSuchElement]

----------------------------------------------------------------------------
(* extract_job_title *)

title_selectors ==
    <<"h1.iCIMS_JobsTable h2", ".iCIMS_Header", "h1", "h2.iCIMS_InfoMsg_Job",
      "//div[@class='iCIMS_JobsTable']//h2">>

\* title_from with the fallback cut short: the first element found decides
RECURSIVE title_first_found(_, _)
title_first_found(driver, i) ==
    IF i > Len(title_selectors) THEN None
    ELSE LET element == driver.title[i] IN
         IF element.raises THEN title_first_found(driver, i + 1)
         ELSE IF strip(element.text) # <<>> THEN strip(element.text)
         ELSE None

RECURSIVE title_from(_, _)
title_from(driver, i) ==
    IF i > Len(title_selectors) THEN None
    ELSE LET element == driver.title[i] IN
         IF element.raises THEN title_from(driver, i + 1)
         ELSE IF strip(element.text) # <<>> THEN strip(element.text)
         ELSE title_from(driver, i + 1)

extract_job_title(driver) == title_from(driver, 1)

----------------------------------------------------------------------------
(* Python dicts: the <<key, value>> pairs in insertion order *)

dict_keys(d) == {d[i][1] : i \in 1..Len(d)}

dict_get(d, k, default) ==
    IF k \in dict_keys(d)
    THEN d[CHOOSE i \in 1..Len(d) : d[i][1] = k][2]
    ELSE default

dict_set(d, k, v) ==
    IF k \in dict_keys(d)
    THEN [d EXCEPT ![CHOOSE i \in 1..Len(d) : d[i][1] = k] = <<k, v>>]
    ELSE Append(d, <<k, v>>)

----------------------------------------------------------------------------
(* extract_location *)

RemoteNeedle == <<"R", "e", "m", "o", "t", "e">>

\* the test of line 135 on the trimmed text of one <dd>
looks_like_location(text) ==
    contains(<<",">>, text) \/ contains(RemoteNeedle, lower(text))

RECURSIVE location_from(_, _)
location_from(elems, i) ==
    IF i > Len(elems) THEN None
    ELSE IF looks_like_location(strip(elems[i])) THEN strip(elems[i])
    ELSE location_from(elems, i + 1)

extract_location(driver) ==
    IF driver.dd.raises THEN None ELSE location_from(driver.dd.elems, 1)

----------------------------------------------------------------------------
(* extract_definition_lists *)

\* zip(dts, dds): as many pairs as the shorter list has elements
zip_len(dts, dds) == IF Len(dts) < Len(dds) THEN Len(dts) ELSE Len(dds)

\* the inner loop of lines 175-180 over one <dl>, from pair i on
\* pair_up keeping a pair whose value is empty
RECURSIVE pair_up_keep_empty(_, _, _, _)
pair_up_keep_empty(dts, dds, i, additional_info) ==
    IF i > zip_len(dts, dds) THEN additional_info
    ELSE LET key == strip(dts[i])
             value == strip(dds[i])
         IN pair_up_keep_empty(dts, dds, i + 1,
                               IF key # <<>>
                               THEN dict_set(additional_info, key, value)
                               ELSE additional_info)

RECURSIVE pair_up(_, _, _, _)
pair_up(dts, dds, i, additional_info) ==
    IF i > zip_len(dts, dds) THEN additional_info
    ELSE LET key == strip(dts[i])
             value == strip(dds[i])
         IN pair_up(dts, dds, i + 1,
                    IF key # <<>> /\ value # <<>>
                    THEN dict_set(additional_info, key, value)
                    ELSE additional_info)

\* the outer loop of lines 169-180, from group g on; an exception raised by
\* a query leaves the loop and what was collected so far is returned
RECURSIVE dl_from(_, _, _)
dl_from(dls, g, additional_info) ==
    IF g > Len(dls) THEN additional_info
    ELSE IF dls[g].raises THEN additional_info
    ELSE dl_from(dls, g + 1, pair_up(dls[g].dts, dls[g].dds, 1, additional_info))

extract_definition_lists(driver) ==
    IF driver.dl.raises THEN <<>> ELSE dl_from(driver.dl.elems, 1, <<>>)

----------------------------------------------------------------------------
(* extract_description *)

desc_selectors ==
    <<".iCIMS_InfoMsg.iCIMS_InfoField_Job", ".iCIMS_JobContent",
      "div[class*='JobDescription']", "div.iCIMS_Expandable_Container">>

MinDescLen == 100

\* first element of one locator's matches that passes the length gate
\* desc_in with the length gate off by one
RECURSIVE desc_in_at_least(_, _)
desc_in_at_least(elems, j) ==
    IF j > Len(elems) THEN None
    ELSE IF Len(strip(elems[j])) >= MinDescLen THEN strip(elems[j])
    ELSE desc_in_at_least(elems, j + 1)

RECURSIVE desc_in(_, _)
desc_in(elems, j) ==
    IF j > Len(elems) THEN None
    ELSE IF Len(strip(elems[j])) > MinDescLen THEN strip(elems[j])
    ELSE desc_in(elems, j + 1)

RECURSIVE desc_from(_, _)
desc_from(driver, i) ==
    IF i > Len(desc_selectors) THEN None
    ELSE LET elements == driver.desc[i] IN
         IF elements.raises THEN desc_from(driver, i + 1)
         ELSE IF desc_in(elements.elems, 1) # None THEN desc_in(elements.elems, 1)
         ELSE desc_from(driver, i + 1)

extract_description(driver) == desc_from(driver, 1)

----------------------------------------------------------------------------
(* JSON values as json.loads builds them, tagged with their Python type *)

Str(s) == [t |-> "str", v |-> s]

\* a dict is a function from its keys; a key it lacks is outside the domain
Dict(f) == [t |-> "dict", v |-> f]

List(s) == [t |-> "list", v |-> s]

EmptyDict == Dict(<<>>)

\* d.get(k, default) on a JSON dict
get(d, k, default) == IF k \in DOMAIN d.v THEN d.v[k] ELSE default

\* d.get(k) where the value, if any, is a JSON string: the str, or None
get_str(d, k) == IF k \in DOMAIN d.v THEN d.v[k].v ELSE None

\* d.get(k, '') where the value, if any, is a JSON string
get_str_or_empty(d, k) == IF k \in DOMAIN d.v THEN d.v[k].v ELSE <<>>

\* truth value of a JSON value
json_truthy(x) ==
    CASE x.t = "dict" -> DOMAIN x.v # {}
      [] x.t = "str" -> x.v # <<>>
      [] x.t = "list" -> x.v # <<>>

key_text == ("value" :> <<"v", "a", "l", "u", "e">>)

\* str(x) of a JSON string or of a dict with one string entry
py_str(x) ==
    IF x.t = "str" THEN x.v
    ELSE LET k == CHOOSE k \in DOMAIN x.v : TRUE IN
         <<"{", "'">> \o key_text[k] \o <<"'", ":", " ", "'">> \o x.v[k].v \o <<"'", "}">>

\* outcome of json.loads(script.string) for one <script> block
ScriptNoString == [loads |-> "TypeError", data |-> EmptyDict]       \* script.string is None
ScriptMalformed == [loads |-> "JSONDecodeError", data |-> EmptyDict]
Script(d) == [loads |-> "ok", data |-> d]

----------------------------------------------------------------------------
(* extract_json_ld *)

JobPosting == <<"J", "o", "b", "P", "o", "s", "t", "i", "n", "g">>

\* lines 266-271: the location, unless jobLocation is no dict; an address
\* that is no dict raises AttributeError, which ends the extraction
location_raises(data) ==
    LET location_data == get(data, "jobLocation", EmptyDict) IN
    location_data.t = "dict" /\ get(location_data, "address", EmptyDict).t # "dict"

with_location(structured_data, data) ==
    LET location_data == get(data, "jobLocation", EmptyDict) IN
    IF location_data.t = "dict"
    THEN LET address == get(location_data, "address", EmptyDict)
             city == get_str_or_empty(address, "addressLocality")
             state == get_str_or_empty(address, "addressRegion")
         IN dict_set(structured_data, "location",
                     strip_chars(city \o <<",", " ">> \o state, {",", " "}))
    ELSE structured_data

\* lines 274-276
with_salary(structured_data, data) ==
    LET salary_info == get(data, "baseSalary", EmptyDict) IN
    IF json_truthy(salary_info)
    THEN dict_set(structured_data, "salary", py_str(salary_info))
    ELSE structured_data

\* lines 259-276 on a JobPosting dict; an AttributeError is caught by the
\* outer handler of line 287 and what was filled so far is returned
job_posting_fields(data) ==
    LET sd1 == dict_set(<<>>, "title", get_str(data, "title"))
        org == get(data, "hiringOrganization", EmptyDict)
    IN IF org.t # "dict" THEN sd1
       ELSE LET sd2 == dict_set(sd1, "company", get_str(org, "name"))
                sd3 == dict_set(sd2, "description", get_str(data, "description"))
                sd4 == dict_set(sd3, "posted_date", get_str(data, "datePosted"))
                sd5 == dict_set(sd4, "employment_type", get_str(data, "employmentType"))
            IN IF location_raises(data) THEN sd5
               ELSE with_salary(with_location(sd5, data), data)

\* line 258
is_job_posting(data) ==
    /\ data.t = "dict"
    /\ LET type == get(data, "@type", EmptyDict) IN
       type.t = "str" /\ type.v = JobPosting

\* the loop of lines 253-285 from block i on: a JSONDecodeError skips the
\* block, any other exception of json.loads leaves the loop through the
\* outer handler with structured_data still empty
RECURSIVE ld_from(_, _)
ld_from(scripts, i) ==
    IF i > Len(scripts) THEN <<>>
    ELSE IF scripts[i].loads = "TypeError" THEN <<>>
    ELSE IF scripts[i].loads = "JSONDecodeError" THEN ld_from(scripts, i + 1)
    ELSE IF is_job_posting(scripts[i].data) THEN job_posting_fields(scripts[i].data)
    ELSE ld_from(scripts, i + 1)

extract_json_ld(soup) ==
    IF soup.scripts.raises THEN <<>> ELSE ld_from(soup.scripts.elems, 1)

----------------------------------------------------------------------------
(* Texts that occur on the pages explored *)

DataAnalyst == <<"D", "a", "t", "a", " ", "A", "n", "a", "l", "y", "s", "t">>
Engineer == <<"E", "n", "g", "i", "n", "e", "e", "r">>
RemoteUS == <<"R", "e", "m", "o", "t", "e", " ", "-", " ", "U", "S">>
AustinTX == <<"A", "u", "s", "t", "i", "n", ",", " ", "T", "X">>
Engineering == <<"E", "n", "g", "i", "n", "e", "e", "r", "i", "n", "g">>
Department == <<"D", "e", "p", "a", "r", "t", "m", "e", "n", "t">>
Sales == <<"S", "a", "l", "e", "s">>
Type == <<"T", "y", "p", "e">>

AcmeCorp == <<"A", "c", "m", "e", " ", "C", "o", "r", "p">>
Date == <<"2", "0", "2", "5", "-", "1", "0", "-", "0", "1">>
FullTime == <<"F", "U", "L", "L", "_", "T", "I", "M", "E">>
Austin == <<"A", "u", "s", "t", "i", "n">>
TX == <<"T", "X">>
Remote == <<"R", "e", "m", "o", "t", "e">>
Organization == <<"O", "r", "g", "a", "n", "i", "z", "a", "t", "i", "o", "n">>
Duties == <<"D", "u", "t", "i", "e", "s">>

TitleTexts == {<<>>, <<" ", "\n">>, <<" ">> \o DataAnalyst \o <<"\n">>, Engineer}

LocTexts ==
    {<<>>, RemoteUS, <<" ">> \o AustinTX \o <<" ">>, Engineering,
     <<"r", "e", "m", "o", "t", "e">>, <<"\t", "R", "E", "M", "O", "T", "E">>}

LabelTexts == {<<" ">>, <<" ">> \o Department, Type}

ValueTexts == {<<>>, Engineering, Sales \o <<"\n">>}

DescTexts ==
    {<<" ">> \o Rep("y", 100) \o <<"\n">>, Rep("x", 101), <<" ">> \o Rep("z", 101)}

\* a JobPosting block with every field the extractor reads
FullPosting ==
    Script(Dict(("@type" :> Str(JobPosting))
             @@ ("title" :> Str(DataAnalyst))
             @@ ("hiringOrganization" :> Dict(("name" :> Str(AcmeCorp))))
             @@ ("description" :> Str(Duties))
             @@ ("datePosted" :> Str(Date))
             @@ ("employmentType" :> Str(FullTime))
             @@ ("jobLocation" :> Dict(("address" :>
                    Dict(("addressLocality" :> Str(Austin)) @@ ("addressRegion" :> Str(TX))))))
             @@ ("baseSalary" :> Dict(("value" :> Str(<<"5">>))))))

\* JobPosting blocks with fields missing
TitleOnlyPosting == Script(Dict(("@type" :> Str(JobPosting)) @@ ("title" :> Str(Engineer))))

DateOnlyPosting == Script(Dict(("@type" :> Str(JobPosting)) @@ ("datePosted" :> Str(Date))))

\* a JobPosting block whose address has a city and no region
RemotePosting ==
    Script(Dict(("@type" :> Str(JobPosting))
             @@ ("hiringOrganization" :> Dict(("name" :> Str(AcmeCorp))))
             @@ ("jobLocation" :> Dict(("address" :>
                    Dict(("addressLocality" :> Str(Remote))))))
             @@ ("baseSalary" :> Str(<<"5", "0", "k">>))))

\* JobPosting blocks of other shapes that occur in the wild
OrgNamePosting ==
    Script(Dict(("@type" :> Str(JobPosting))
             @@ ("title" :> Str(DataAnalyst))
             @@ ("hiringOrganization" :> Str(AcmeCorp))
             @@ ("datePosted" :> Str(Date))))

LocationListPosting ==
    Script(Dict(("@type" :> Str(JobPosting))
             @@ ("title" :> Str(DataAnalyst))
             @@ ("jobLocation" :> List(<<Austin>>))))

AddressTextPosting ==
    Script(Dict(("@type" :> Str(JobPosting))
             @@ ("employmentType" :> Str(FullTime))
             @@ ("jobLocation" :> Dict(("address" :> Str(AustinTX))))
             @@ ("baseSalary" :> Str(<<"5", "0", "k">>))))

\* blocks that are valid JSON and no JobPosting
OrganizationBlock == Script(Dict(("@type" :> Str(Organization)) @@ ("title" :> Str(AcmeCorp))))

ListBlock == Script(List(<<JobPosting>>))

ScriptBlocks ==
    {ScriptNoString, ScriptMalformed, OrganizationBlock, ListBlock,
     FullPosting, TitleOnlyPosting, DateOnlyPosting, RemotePosting,
     OrgNamePosting, LocationListPosting, AddressTextPosting}

----------------------------------------------------------------------------
(* Bounds of the exploration *)

MaxBlocks == 3     \* ld+json <script> blocks on a page

MaxDD == 3         \* <dd> elements on a page
MaxDlElems == 6    \* <dl>, <dt> and <dd> elements on a page
MaxDescElems == 3  \* elements matched by the description locators together

----------------------------------------------------------------------------
(* Pages given to one extractor alone *)

TitleOutcomes == {NoSuchElement} \cup {Element(t) : t \in TitleTexts}

\* the groups with n label and value elements in all
GroupsOfSize(n) ==
    UNION {{[raises |-> FALSE, dts |-> a, dds |-> b] :
                a \in [1..k -> LabelTexts], b \in [1..(n - k) -> ValueTexts]} :
           k \in 0..n}

\* a group whose queries raise
RaisingGroup == [raises |-> TRUE, dts |-> <<>>, dds |-> <<>>]

\* pages of at most n <dl>, <dt> and <dd> elements in all; nothing is read
\* after a group whose queries raise, so such a group comes last
RECURSIVE DlSeqs(_)
DlSeqs(n) ==
    IF n = 0 THEN {<<>>}
    ELSE {<<>>, <<RaisingGroup>>}
         \cup UNION {{<<grp>> \o rest : grp \in GroupsOfSize(m),
                                        rest \in DlSeqs(n - 1 - m)} :
                     m \in 0..(n - 1)}

\* outcomes of the locators i..4 matching at most n elements together
RECURSIVE DescOutcomes(_, _)
DescOutcomes(i, n) ==
    IF i > Len(desc_selectors) THEN {<<>>}
    ELSE {<<Raises>> \o rest : rest \in DescOutcomes(i + 1, n)}
         \cup UNION {{<<Elements(s)>> \o rest : s \in [1..m -> DescTexts],
                                               rest \in DescOutcomes(i + 1, n - m)} :
                     m \in 0..n}

----------------------------------------------------------------------------
(* One extractor applied to one page *)

Idle ==
    /\ url = <<>>
    /\ fault = "none"
    /\ browser = "none"
    /\ job_data = <<>>
    /\ dom_data = <<>>
    /\ json_ld_data = <<>>
    /\ result = None

InitTitle ==
    /\ pc = "title_call"
    /\ view \in {[EmptyView EXCEPT !.title = t] : t \in [1..Len(title_selectors) -> TitleOutcomes]}
    /\ Idle

CallTitle ==
    /\ pc = "title_call"
    /\ result' = extract_job_title(view)
    /\ pc' = "title_done"
    /\ UNCHANGED <<url, view, fault, browser, job_data, dom_data, json_ld_data>>

SpecTitle == InitTitle /\ [][CallTitle]_vars

InitLocation ==
    /\ pc = "location_call"
    /\ view \in {[EmptyView EXCEPT !.dd = o] :
                o \in {Raises} \cup {Elements(s) : s \in BSeq(LocTexts, MaxDD)}}
    /\ Idle

CallLocation ==
    /\ pc = "location_call"
    /\ result' = extract_location(view)
    /\ pc' = "location_done"
    /\ UNCHANGED <<url, view, fault, browser, job_data, dom_data, json_ld_data>>

SpecLocation == InitLocation /\ [][CallLocation]_vars

InitDefinitionLists ==
    /\ pc = "dl_call"
    /\ view \in {[EmptyView EXCEPT !.dl = o] :
                o \in {Raises} \cup {Elements(s) : s \in DlSeqs(MaxDlElems)}}
    /\ Idle

CallDefinitionLists ==
    /\ pc = "dl_call"
    /\ result' = extract_definition_lists(view)
    /\ pc' = "dl_done"
    /\ UNCHANGED <<url, view, fault, browser, job_data, dom_data, json_ld_data>>

SpecDefinitionLists == InitDefinitionLists /\ [][CallDefinitionLists]_vars

InitDescription ==
    /\ pc = "desc_call"
    /\ view \in {[EmptyView EXCEPT !.desc = o] : o \in DescOutcomes(1, MaxDescElems)}
    /\ Idle

CallDescription ==
    /\ pc = "desc_call"
    /\ result' = extract_description(view)
    /\ pc' = "desc_done"
    /\ UNCHANGED <<url, view, fault, browser, job_data, dom_data, json_ld_data>>

SpecDescription == InitDescription /\ [][CallDescription]_vars

InitJsonLd ==
    /\ pc = "json_ld_call"
    /\ view \in {[EmptyView EXCEPT !.scripts = Elements(b)] : b \in BSeq(ScriptBlocks, MaxBlocks)}
    /\ Idle

CallJsonLd ==
    /\ pc = "json_ld_call"
    /\ result' = extract_json_ld(view)
    /\ pc' = "json_ld_done"
    /\ UNCHANGED <<url, view, fault, browser, job_data, dom_data, json_ld_data>>

SpecJsonLd == InitJsonLd /\ [][CallJsonLd]_vars

----------------------------------------------------------------------------
(* Properties of extract_job_title *)

title_fails(i) == view.title[i].raises \/ strip(view.title[i].text) = <<>>

\* C9: extract_job_title returns the trimmed text of the first locator, in
\* list order, that resolves to an element with non-empty trimmed text, the
\* locators before it having raised or resolved to empty text; it returns
\* None exactly when all five locators fail.
C9_TitleFallbackOrder ==
    pc = "title_done" =>
        /\ \A k \in 1..5 :
              (~title_fails(k) /\ \A i \in 1..(k - 1) : title_fails(i))
                  => result = strip(view.title[k].text)
        /\ result = None <=> \A i \in 1..5 : title_fails(i)

\* locator 1 raises, locator 2 resolves to blank text, locator 3 yields the title
C9_Witness ==
    /\ pc = "title_done"
    /\ view.title[1].raises
    /\ ~view.title[2].raises /\ view.title[2].text = <<" ", "\n">>
    /\ ~view.title[3].raises /\ view.title[3].text = <<" ">> \o DataAnalyst \o <<"\n">>
    /\ result = DataAnalyst

----------------------------------------------------------------------------
(* Properties of extract_location *)

\* the text holds a comma, or the word "remote" in any letter case
comma_or_remote(text) ==
    \/ \E i \in 1..Len(text) : text[i] = ","
    \/ \E i \in 1..Len(text) :
          /\ i + 5 <= Len(text)
          /\ text[i] \in {"r", "R"} /\ text[i + 1] \in {"e", "E"}
          /\ text[i + 2] \in {"m", "M"} /\ text[i + 3] \in {"o", "O"}
          /\ text[i + 4] \in {"t", "T"} /\ text[i + 5] \in {"e", "E"}

\* C4: extract_location returns the trimmed text of the first <dd>, in
\* document order, whose trimmed text holds a comma or the word "remote" in
\* any letter case, and None only if no <dd> does.
C4_LocationCommaOrRemote ==
    pc = "location_done" =>
        LET elems == view.dd.elems IN
        /\ \A k \in 1..Len(elems) :
              (/\ comma_or_remote(strip(elems[k]))
               /\ \A i \in 1..(k - 1) : ~comma_or_remote(strip(elems[i])))
                  => result = strip(elems[k])
        /\ result = None => \A i \in 1..Len(elems) : ~comma_or_remote(strip(elems[i]))

----------------------------------------------------------------------------
(* Properties of extract_definition_lists *)

\* the groups read before a query raises
groups_read ==
    IF view.dl.raises THEN <<>>
    ELSE LET dls == view.dl.elems
             stop == {g \in 1..Len(dls) : dls[g].raises}
         IN IF stop = {} THEN dls
            ELSE SubSeq(dls, 1, (CHOOSE g \in stop : \A h \in stop : g <= h) - 1)

\* pair i of group g exists and both its trimmed texts are non-empty
retained(g, i) ==
    /\ g \in 1..Len(groups_read)
    /\ i >= 1 /\ i <= Len(groups_read[g].dts) /\ i <= Len(groups_read[g].dds)
    /\ strip(groups_read[g].dts[i]) # <<>>
    /\ strip(groups_read[g].dds[i]) # <<>>

retained_pairs == {p \in (1..MaxDlElems) \X (1..MaxDlElems) : retained(p[1], p[2])}

label_of(p) == strip(groups_read[p[1]].dts[p[2]])

value_of(p) == strip(groups_read[p[1]].dds[p[2]])

later(p, q) == p[1] > q[1] \/ (p[1] = q[1] /\ p[2] >= q[2])

\* C7: within each <dl> the i-th label is paired with the i-th value up to
\* the shorter of the two lists; a pair is retained only if both trimmed
\* texts are non-empty; the mapping returned has exactly the retained labels
\* as keys, each once, and sends a label to the value of its last retained
\* pair in document order; it is empty when nothing is retained.
C7_DefinitionListPairing ==
    pc = "dl_done" =>
        /\ dict_keys(result) = {label_of(p) : p \in retained_pairs}
        /\ Len(result) = Cardinality(dict_keys(result))
        /\ \A p \in retained_pairs :
              (\A q \in retained_pairs : label_of(q) = label_of(p) => later(p, q))
                  => dict_get(result, label_of(p), None) = value_of(p)
        /\ retained_pairs = {} => result = <<>>

\* one group of 3 labels and 2 values gives exactly 2 pairs
C7_Witness ==
    /\ pc = "dl_done"
    /\ ~view.dl.raises
    /\ Len(view.dl.elems) = 1
    /\ view.dl.elems[1].dts = <<<<" ">> \o Department, Type, Type>>
    /\ view.dl.elems[1].dds = <<Engineering, Sales \o <<"\n">>>>
    /\ result = <<<<Department, Engineering>>, <<Type, Sales>>>>

----------------------------------------------------------------------------
(* Properties of extract_description *)

\* element j of locator i exists and its trimmed text is longer than 100
desc_qualifies(i, j) ==
    /\ ~view.desc[i].raises
    /\ j \in 1..Len(view.desc[i].elems)
    /\ Len(strip(view.desc[i].elems[j])) > 100

desc_positions == (1..4) \X (1..MaxDescElems + 1)

desc_before(p, q) == p[1] < q[1] \/ (p[1] = q[1] /\ p[2] < q[2])

\* C8: extract_description returns the trimmed text of the first element, by
\* locator priority and then document order, whose trimmed text is longer
\* than 100 characters; a text of 100 characters or fewer is never returned;
\* None is returned only when no element of any locator qualifies.
C8_DescriptionLengthGate ==
    pc = "desc_done" =>
        /\ \A p \in desc_positions :
              (/\ desc_qualifies(p[1], p[2])
               /\ \A q \in desc_positions :
                     desc_before(q, p) => ~desc_qualifies(q[1], q[2]))
                  => result = strip(view.desc[p[1]].elems[p[2]])
        /\ result # None => Len(result) > 100
        /\ result = None => \A p \in desc_positions : ~desc_qualifies(p[1], p[2])

\* locator 1 raises, locator 2 matches two elements of which the first has
\* 100 characters after trimming and the second 101
C8_Witness ==
    /\ pc = "desc_done"
    /\ view.desc[1].raises
    /\ ~view.desc[2].raises
    /\ view.desc[2].elems = <<<<" ">> \o Rep("y", 100) \o <<"\n">>, <<" ">> \o Rep("z", 101)>>
    /\ result = Rep("z", 101)

----------------------------------------------------------------------------
(* Properties of extract_json_ld *)

\* block i holds valid JSON that is a dict declaring the type JobPosting
block_qualifies(i) ==
    LET b == view.scripts.elems[i] IN
    /\ b.loads = "ok"
    /\ b.data.t = "dict"
    /\ "@type" \in DOMAIN b.data.v
    /\ b.data.v["@type"] = Str(JobPosting)

\* C5: extract_json_ld returns the fields of the first block, in document
\* order, that parses and declares the type JobPosting, whatever blocks come
\* before it (malformed, empty or of another type) or after it; the result
\* is the empty mapping only if no block qualifies.
C5_FirstJobPostingBlock ==
    pc = "json_ld_done" =>
        LET blocks == view.scripts.elems IN
        /\ \A k \in 1..Len(blocks) :
              (block_qualifies(k) /\ \A i \in 1..(k - 1) : ~block_qualifies(i))
                  => result = job_posting_fields(blocks[k].data)
        /\ result = <<>> => \A i \in 1..Len(blocks) : ~block_qualifies(i)

----------------------------------------------------------------------------
(* scrape_icims_job: inputs *)

Host ==
    <<"h", "t", "t", "p", "s", ":", "/", "/", "c", "a", "r", "e", "e", "r",
      "s", "-", "a", "e", "i", "e", "n", "g", ".", "i", "c", "i", "m", "s",
      ".", "c", "o", "m">>

jobs_marker == <<"/", "j", "o", "b", "s", "/">>

\* the URL of main(), cut after its first query parameter
PostingUrl ==
    Host \o jobs_marker \o
    <<"5", "4", "1", "7", "/", "e", "n", "g", "i", "n", "e", "e", "r", "i",
      "n", "g", "-", "d", "a", "t", "a", "-", "a", "n", "a", "l", "y", "s",
      "t", "/", "j", "o", "b", "?", "m", "o", "b", "i", "l", "e", "=", "f",
      "a", "l", "s", "e">>

\* the job id is the last path segment and a query follows it
ShortPostingUrl ==
    Host \o jobs_marker \o
    <<"5", "4", "1", "7", "?", "m", "o", "b", "i", "l", "e", "=", "f", "a",
      "l", "s", "e">>

\* the marker occurs twice
TwoMarkerUrl ==
    Host \o jobs_marker \o
    <<"1", "2", "/", "x", "/", "j", "o", "b", "s", "/", "3", "4", "/", "y">>

\* no marker
CareersUrl == Host \o <<"/", "c", "a", "r", "e", "e", "r", "s", "/", "5", "4", "1", "7">>

JobsIndexUrl == Host \o <<"/", "j", "o", "b", "s">>

Urls == {PostingUrl, ShortPostingUrl, TwoMarkerUrl, CareersUrl, JobsIndexUrl}

\* datetime.now().isoformat()
Now ==
    <<"2", "0", "2", "5", "-", "1", "0", "-", "0", "6", "T", "1", "2", ":",
      "0", "0", ":", "0", "0">>

BodyText ==
    <<"\n", "D", "a", "t", "a", " ", "A", "n", "a", "l", "y", "s", "t",
      "\n", "R", "e", "m", "o", "t", "e", " ", "-", " ", "U", "S", "\n">>

\* the calls of scrape_icims_job outside the extractors that may raise
Faults == {"none", "setup_chrome_driver", "get", "wait_until", "switch_to_frame", "page_source"}

PageTitles ==
    {[i \in 1..5 |-> NoSuchElement],
     [i \in 1..5 |-> IF i = 1 THEN Element(<<>>)
                     ELSE IF i = 3 THEN Element(<<" ">> \o DataAnalyst \o <<"\n">>)
                     ELSE NoSuchElement],
     [i \in 1..5 |-> IF i = 5 THEN Element(Engineer) ELSE NoSuchElement]}

PageDds ==
    {Raises, Elements(<<RemoteUS>>), Elements(<<Engineering, <<" ">> \o AustinTX \o <<" ">>>>)}

PageDls ==
    {Raises, Elements(<<>>),
     Elements(<<[raises |-> FALSE, dts |-> <<Department>>, dds |-> <<Engineering>>]>>)}

PageDescs ==
    {[i \in 1..4 |-> Raises],
     [i \in 1..4 |-> Elements(<<>>)],
     [i \in 1..4 |-> IF i = 2
                     THEN Elements(<<<<" ">> \o Rep("y", 100) \o <<"\n">>, Rep("x", 101)>>)
                     ELSE Elements(<<>>)]}

PageScripts ==
    {Raises, Elements(<<>>), Elements(<<FullPosting>>),
     Elements(<<ScriptNoString, FullPosting>>),
     Elements(<<ScriptMalformed, TitleOnlyPosting>>),
     Elements(<<DateOnlyPosting>>),
     Elements(<<RemotePosting, FullPosting>>),
     Elements(<<OrgNamePosting>>),
     Elements(<<OrganizationBlock>>)}

PageBodies == {NoSuchElement, Element(BodyText)}

PageViews ==
    [title : PageTitles, dd : PageDds, dl : PageDls, desc : PageDescs,
     scripts : PageScripts, body : PageBodies]

----------------------------------------------------------------------------
(* scrape_icims_job *)

\* lines 365-377
initial_job_data(u, timestamp) ==
    <<<<"url", u>>, <<"scrape_timestamp", timestamp>>, <<"job_id", None>>,
      <<"job_title", None>>, <<"company", None>>, <<"location", None>>,
      <<"description", None>>, <<"posted_date", None>>,
      <<"employment_type", None>>, <<"additional_info", <<>>>>,
      <<"salary", None>>>>

\* lines 380-381
with_job_id(data, u) ==
    IF contains(jobs_marker, u)
    THEN dict_set(data, "job_id", split(split(u, jobs_marker)[2], <<"/">>)[1])
    ELSE data

\* merge_from without the test that the record's value is missing
RECURSIVE merge_overwrite(_, _, _)
merge_overwrite(data, items, i) ==
    IF i > Len(items) THEN data
    ELSE LET key == items[i][1]
             value == items[i][2]
         IN merge_overwrite(IF truthy(value) THEN dict_set(data, key, value) ELSE data,
                            items, i + 1)

\* lines 410-413 from item i of json_ld_data on
RECURSIVE merge_from(_, _, _)
merge_from(data, items, i) ==
    IF i > Len(items) THEN data
    ELSE LET key == items[i][1]
             value == items[i][2]
         IN merge_from(IF truthy(value) /\ ~truthy(dict_get(data, key, None))
                       THEN dict_set(data, key, value)
                       ELSE data,
                       items, i + 1)

merge_json_ld(data, items) == IF items # <<>> THEN merge_from(data, items, 1) ELSE data

Init ==
    /\ pc = "setup_chrome_driver"
    /\ url \in Urls
    /\ fault \in Faults
    /\ view = EmptyView
    /\ browser = "none"
    /\ job_data = <<>>
    /\ dom_data = <<>>
    /\ json_ld_data = <<>>
    /\ result = None

\* line 321
SetupDriver ==
    /\ pc = "setup_chrome_driver"
    /\ IF fault = "setup_chrome_driver"
       THEN pc' = "except" /\ UNCHANGED browser
       ELSE pc' = "get" /\ browser' = "open"
    /\ UNCHANGED <<url, view, fault, job_data, dom_data, json_ld_data, result>>

\* line 330: the page the browser shows from now on
LoadPage ==
    /\ pc = "get"
    /\ IF fault = "get"
       THEN pc' = "except" /\ UNCHANGED view
       ELSE pc' = "switch_to_frame" /\ view' \in PageViews
    /\ UNCHANGED <<url, fault, browser, job_data, dom_data, json_ld_data, result>>

\* lines 339-356
SwitchToFrame ==
    /\ pc = "switch_to_frame"
    /\ pc' = IF fault \in {"wait_until", "switch_to_frame"} THEN "except" ELSE "job_data"
    /\ UNCHANGED <<url, view, fault, browser, job_data, dom_data, json_ld_data, result>>

\* lines 365-377
InitJobData ==
    /\ pc = "job_data"
    /\ job_data' = initial_job_data(url, Now)
    /\ pc' = "job_id"
    /\ UNCHANGED <<url, view, fault, browser, dom_data, json_ld_data, result>>

\* lines 380-383
ParseJobId ==
    /\ pc = "job_id"
    /\ job_data' = with_job_id(job_data, url)
    /\ pc' = "page_source"
    /\ UNCHANGED <<url, view, fault, browser, dom_data, json_ld_data, result>>

\* lines 386-387
ReadPageSource ==
    /\ pc = "page_source"
    /\ pc' = IF fault = "page_source" THEN "except" ELSE "extract_job_title"
    /\ UNCHANGED <<url, view, fault, browser, job_data, dom_data, json_ld_data, result>>

\* line 390
ExtractJobTitle ==
    /\ pc = "extract_job_title"
    /\ job_data' = dict_set(job_data, "job_title", extract_job_title(view))
    /\ pc' = "extract_location"
    /\ UNCHANGED <<url, view, fault, browser, dom_data, json_ld_data, result>>

\* line 393
ExtractLocation ==
    /\ pc = "extract_location"
    /\ job_data' = dict_set(job_data, "location", extract_location(view))
    /\ pc' = "extract_definition_lists"
    /\ UNCHANGED <<url, view, fault, browser, dom_data, json_ld_data, result>>

\* line 396
ExtractDefinitionLists ==
    /\ pc = "extract_definition_lists"
    /\ job_data' = dict_set(job_data, "additional_info", extract_definition_lists(view))
    /\ pc' = "extract_description"
    /\ UNCHANGED <<url, view, fault, browser, dom_data, json_ld_data, result>>

\* line 399
ExtractDescription ==
    /\ pc = "extract_description"
    /\ job_data' = dict_set(job_data, "description", extract_description(view))
    /\ pc' = "extract_json_ld"
    /\ UNCHANGED <<url, view, fault, browser, dom_data, json_ld_data, result>>

\* line 407; dom_data records the record the DOM steps built
ExtractJsonLd ==
    /\ pc = "extract_json_ld"
    /\ json_ld_data' = extract_json_ld(view)
    /\ dom_data' = job_data
    /\ pc' = "merge"
    /\ UNCHANGED <<url, view, fault, browser, job_data, result>>

\* lines 410-413
MergeJsonLd ==
    /\ pc = "merge"
    /\ job_data' = merge_json_ld(job_data, json_ld_data)
    /\ pc' = "full_page_text"
    /\ UNCHANGED <<url, view, fault, browser, dom_data, json_ld_data, result>>

\* lines 416-420
CaptureFullPageText ==
    /\ pc = "full_page_text"
    /\ job_data' = IF view.body.raises THEN job_data
                   ELSE dict_set(job_data, "full_page_text", view.body.text)
    /\ pc' = "return"
    /\ UNCHANGED <<url, view, fault, browser, dom_data, json_ld_data, result>>

\* line 427
ReturnJobData ==
    /\ pc = "return"
    /\ result' = job_data
    /\ pc' = "finally"
    /\ UNCHANGED <<url, view, fault, browser, job_data, dom_data, json_ld_data>>

\* HandleError handing back what was assembled before the failure
ReturnPartialRecord ==
    /\ pc = "except"
    /\ result' = job_data
    /\ pc' = "finally"
    /\ UNCHANGED <<url, view, fault, browser, job_data, dom_data, json_ld_data>>

\* lines 429-433
HandleError ==
    /\ pc = "except"
    /\ result' = None
    /\ pc' = "finally"
    /\ UNCHANGED <<url, view, fault, browser, job_data, dom_data, json_ld_data>>

\* lines 435-440
CloseBrowser ==
    /\ pc = "finally"
    /\ browser' = IF browser = "open" THEN "quit" ELSE browser
    /\ pc' = "done"
    /\ UNCHANGED <<url, view, fault, job_data, dom_data, json_ld_data, result>>

Next ==
    \/ SetupDriver
    \/ LoadPage
    \/ SwitchToFrame
    \/ InitJobData
    \/ ParseJobId
    \/ ReadPageSource
    \/ ExtractJobTitle
    \/ ExtractLocation
    \/ ExtractDefinitionLists
    \/ ExtractDescription
    \/ ExtractJsonLd
    \/ MergeJsonLd
    \/ CaptureFullPageText
    \/ ReturnJobData
    \/ HandleError
    \/ CloseBrowser

Spec == Init /\ [][Next]_vars

----------------------------------------------------------------------------
(* Properties of scrape_icims_job *)

CanonicalKeys ==
    {"url", "scrape_timestamp", "job_id", "job_title", "company", "location",
     "description", "posted_date", "employment_type", "salary", "additional_info"}

\* the run is over and returned a record; None has one element, a record
\* has an entry for each key of lines 365-377
returned_record == pc = "done" /\ Len(result) > 1

returned_none == pc = "done" /\ result = None

\* value of key k in record d, the empty value of the key if d lacks it
field(d, k) == dict_get(d, k, IF k = "additional_info" THEN <<>> ELSE None)

non_empty(d, k) ==
    IF k = "additional_info" THEN field(d, k) # <<>> ELSE truthy(field(d, k))

\* C1: every key whose value is non-empty after the DOM extraction steps and
\* the job_id parsing keeps exactly that value in the returned record,
\* whatever the JSON-LD result holds for the key.
C1_MergePrecedence ==
    returned_record =>
        \A k \in dict_keys(dom_data) :
            non_empty(dom_data, k) => field(result, k) = field(dom_data, k)

\* the DOM gives the location "Austin, TX", the JSON-LD block gives "Remote"
C1_Witness ==
    /\ returned_record
    /\ field(dom_data, "location") = AustinTX
    /\ dict_get(json_ld_data, "location", None) = Remote
    /\ field(result, "location") = AustinTX

\* structured-data field and the canonical record field it stands for
FieldMap ==
    {<<"title", "job_title">>, <<"company", "company">>,
     <<"description", "description">>, <<"posted_date", "posted_date">>,
     <<"employment_type", "employment_type">>, <<"location", "location">>,
     <<"salary", "salary">>}

\* C2: for each field the JSON-LD extractor derives, if the DOM steps left
\* the canonical record field absent and the JSON-LD result has a non-empty
\* value, the returned record holds that value in the canonical field.
C2_GapFilling ==
    returned_record =>
        \A f \in FieldMap :
            (~non_empty(dom_data, f[2]) /\ truthy(dict_get(json_ld_data, f[1], None)))
                => field(result, f[2]) = dict_get(json_ld_data, f[1], None)

\* C3: a returned record has exactly the canonical keys, plus optionally
\* the full-page-text field; the merge adds no other key.
C3_CanonicalKeySet ==
    returned_record =>
        \/ dict_keys(result) = CanonicalKeys
        \/ dict_keys(result) = CanonicalKeys \cup {"full_page_text"}

\* C6: the result is None or a record with every required key; a query that
\* raises inside an extractor or in the full-page-text capture never makes
\* the run return None and leaves that extractor's field absent; a failure
\* of an orchestration call makes the run return None.
C6_AllOrNothing ==
    pc = "done" =>
        /\ fault # "none" => returned_none
        /\ fault = "none" =>
              /\ returned_record
              /\ CanonicalKeys \subseteq dict_keys(result)
              /\ (\A i \in 1..5 : view.title[i].raises) => field(dom_data, "job_title") = None
              /\ view.dd.raises => field(dom_data, "location") = None
              /\ view.dl.raises => field(dom_data, "additional_info") = <<>>
              /\ (\A i \in 1..4 : view.desc[i].raises) => field(dom_data, "description") = None
              /\ view.scripts.raises =>
                    \A k \in CanonicalKeys : field(result, k) = field(dom_data, k)
              /\ view.body.raises => "full_page_text" \notin dict_keys(result)

\* every extractor query and the body query raise, and a record is returned
C6_Witness ==
    /\ returned_record
    /\ fault = "none"
    /\ \A i \in 1..5 : view.title[i].raises
    /\ view.dd.raises /\ view.dl.raises /\ view.scripts.raises /\ view.body.raises
    /\ \A i \in 1..4 : view.desc[i].raises
    /\ dict_keys(result) = CanonicalKeys

\* the URL contains the marker segment
has_marker(u) == \E i \in 1..(Len(u) - 5) : SubSeq(u, i, i + 5) = jobs_marker

\* the path segment right after the first occurrence of the marker: it ends
\* at the next "/" or where the path ends ("?", "#" or the end of the URL)
segment_after_marker(u) ==
    LET first == CHOOSE i \in 1..(Len(u) - 5) :
                    /\ SubSeq(u, i, i + 5) = jobs_marker
                    /\ \A j \in 1..(i - 1) : SubSeq(u, j, j + 5) # jobs_marker
        stops == {j \in (first + 6)..Len(u) : u[j] \in {"/", "?", "#"}}
        last == IF stops = {} THEN Len(u)
                ELSE (CHOOSE j \in stops : \A h \in stops : j <= h) - 1
    IN SubSeq(u, first + 6, last)

\* C10: for a URL containing the marker /jobs/, job_id is the path segment
\* right after the first occurrence of the marker; for a URL without the
\* marker, job_id stays None and the run returns its record all the same.
C10_JobIdFromUrl ==
    (pc = "done" /\ fault = "none") =>
        /\ returned_record
        /\ field(result, "job_id") =
              IF has_marker(url) THEN segment_after_marker(url) ELSE None

====
